---- MODULE Spec2Model ----
(***************************************************************************)
(* Outbound delivery core of the Feishu channel plugin: the FeishuStream   *)
(* streaming card controller, the reply dispatcher built by                *)
(* createFeishuReplyDispatcher (typing indicator, onPartialReply, deliver, *)
(* onError) and the pending-history handling of handleFeishuMessage.       *)
(*                                                                         *)
(* Execution model: one action is one turn of the JavaScript event loop    *)
(* (a callback invoked by the SDK, a timer callback, or the completion of  *)
(* one network call) together with the synchronous code and the promise    *)
(* continuations it runs before the loop is free again.  A suspended async *)
(* invocation is a frame in `calls`; a network call is an entry of `net`   *)
(* that stays "inflight" until its completion action picks an outcome.     *)
(***************************************************************************)
EXTENDS Integers, Sequences, FiniteSets, TLC

\* ---------------------------------------------------------------- bounds
MaxPartials == 3        \* Partial events the agent produces in the turn
MaxDelivers == 1        \* Final payloads handed to deliver in the turn
MaxStreams == 1         \* FeishuStream objects constructed in the turn
MaxStarts == 2          \* onReplyStart invocations by the SDK
MaxStops == 2           \* onIdle invocations by the SDK
MaxMessages == 3        \* inbound messages handled
MaxHistoryLimit == 2    \* largest configured historyLimit
MaxTime == 800          \* the clock stops advancing here
TickMs == 400           \* granularity of the clock
TextChunkLimit == 1     \* resolveTextChunkLimit(cfg), in characters
MaxCount == 3           \* largest small `count` asked of listMessagesFeishu
MaxItems == 2           \* items on a page that is not full
MaxListCalls == 3       \* pages served by a backend that may serve empty pages

\* ------------------------------------------------------ program constants
STREAM_UPDATE_INTERVAL_MS == 400

\* Texts are sequences of characters.  "" is <<>>.
PartialTexts == {<<>>, <<"a">>, <<"b">>, <<"c">>}
RevisedTexts == {<<>>, <<"a">>, <<"b">>}
FinalTexts == {<<" ">>, <<"z">>}
ReplyTexts ==
    {<<>>, <<" ">>, <<"x", "y", "z">>, <<"p", " ", "q">>,
     <<"BQ", "BQ", "BQ", "x", "BQ", "BQ", "BQ">>,
     <<"|", "a", "|", "\n", "|", "-", "|">>}

TurnTexts == {<<" ">>, <<"x", "y">>}
BlankTexts == {<<>>, <<" ">>, <<"\n", " ">>}
Chats == {"g1", "g2"}

Streams == 1..MaxStreams

VARIABLES
    now,               \* Date.now()
    replyToMessageId,  \* params.replyToMessageId is set (TRUE) or undefined
    typingState,       \* 0 = null, else the id of the indicator held
    currentStream,     \* 0 = null, else the stream object referenced
    nStreams,          \* FeishuStream objects constructed so far
    streams,           \* the fields of each FeishuStream object
    calls,             \* suspended async invocations, oldest first
    net,               \* every network call issued, in issue order
    lastCall,          \* the latest update()/finalize() call made on a stream
    errors,            \* the kinds of error reported (logged or thrown) so far
    renderMode,        \* cfg.channels.feishu.renderMode ?? "auto"
    finals,            \* the non-blank Final texts handed to deliver, in order
    stopInvoked,       \* the typing stop callback has been invoked
    budget,            \* callbacks the SDK may still invoke in the turn
    cfgHistoryLimit,   \* the configured historyLimit, before Math.max(0, ..)
    chatHistories,     \* the chatHistories map: chat id -> pending entries
    turn,              \* the latest authorized run of handleFeishuMessage
    nMsg,              \* inbound messages received so far
    recorded,          \* per chat, the entries handed to record since its last clear
    failure,           \* the latest collaborator failure in handleFeishuMessage
    second,            \* a turn running next to `turn`, with its own dispatcher
    lister             \* one invocation of listMessagesFeishu

vars == <<now, replyToMessageId, renderMode, typingState, currentStream, nStreams, streams,
          calls, net, lastCall, errors, finals, stopInvoked, budget,
          cfgHistoryLimit, chatHistories, turn, nMsg, recorded, failure, second, lister>>

\* ------------------------------------------------------------- helpers
\* n is the arrival number of the update() call that scheduled the timer.
NoTimer == [set |-> FALSE, content |-> <<>>, at |-> 0, n |-> 0]

\* FeishuStream field initialisers (part_002 lines 35-40)
NewStream ==
    [messageId |-> 0, lastContent |-> <<>>, lastUpdateTime |-> 0,
     pendingUpdate |-> NoTimer, isFinalized |-> FALSE,
     initializationPromise |-> FALSE]

\* A suspended invocation: fn is the entry point the frame belongs to, pc the
\* await it is parked at, awaits the index in net of the call it waits for.
Frame(fn, pc, s, text, awaits) ==
    [fn |-> fn, pc |-> pc, s |-> s, text |-> text, awaits |-> awaits,
     chunks |-> <<>>, idx |-> 0, card |-> FALSE, n |-> 0]

\* One network call.  ref is the stream (card calls), the indicator (typing
\* removal) or the chunk index (chunk sends); streaming is the streaming_mode
\* flag of the card sent; final is the Final payload it delivers (0: none);
\* n is the arrival number of the update()/finalize() call whose content a
\* card call carries (0 for the other calls).
NetCall(op, ref, text, streaming, by) ==
    [op |-> op, ref |-> ref, text |-> text, streaming |-> streaming,
     by |-> by, at |-> now, status |-> "inflight", final |-> 0, n |-> 0]

\* The record of one more call of fn on stream s (n counts the calls;
\* cancelled is the arrival number held by the timer the call cancelled).
Called(fn, s, text, prev) ==
    [fn |-> fn, s |-> s, text |-> text, n |-> prev.n + 1, cancelled |-> 0]

RemoveAt(seq, i) == SubSeq(seq, 1, i - 1) \o SubSeq(seq, i + 1, Len(seq))

\* The machine state threaded through the synchronous code of one action.
Machine ==
    [streams |-> streams, calls |-> calls, net |-> net, lastCall |-> lastCall,
     typingState |-> typingState, currentStream |-> currentStream,
     errors |-> errors, finals |-> finals, stopInvoked |-> stopInvoked]

Commit(m) ==
    /\ streams' = m.streams
    /\ calls' = m.calls
    /\ net' = m.net
    /\ lastCall' = m.lastCall
    /\ typingState' = m.typingState
    /\ currentStream' = m.currentStream
    /\ errors' = m.errors
    /\ finals' = m.finals
    /\ stopInvoked' = m.stopInvoked

Issue(m, call, frame) ==
    [m EXCEPT !.net = Append(@, call),
              !.calls = Append(@, [frame EXCEPT !.awaits = Len(m.net) + 1])]

Settle(m, i, ok) ==
    [m EXCEPT !.net[i].status = IF ok THEN "ok" ELSE "failed"]

\* The index in m.calls of the frame parked on network call i (0 if none).
FrameOf(m, i) ==
    IF \E k \in 1..Len(m.calls) : m.calls[k].awaits = i
    THEN CHOOSE k \in 1..Len(m.calls) : m.calls[k].awaits = i
    ELSE 0

\* ------------------------------------------------------- FeishuStream
\* performUpdate up to its await (lines 109-118).
performUpdateMissingGuard(m, s, content, by, n) ==
    Issue(m, [NetCall("updateCard", s, content, TRUE, by) EXCEPT !.n = n],
          Frame(by, "performUpdate", s, content, 0))

performUpdate(m, s, content, by, n) ==
    IF m.streams[s].messageId = 0 \/ m.streams[s].isFinalized THEN m
    ELSE Issue(m, [NetCall("updateCard", s, content, TRUE, by) EXCEPT !.n = n],
               Frame(by, "performUpdate", s, content, 0))

\* "Schedule or execute update" without the `!this.pendingUpdate` test.
scheduleOrExecuteReschedules(m, s, content, isFinal, by, n) ==
    LET st == m.streams[s]
        timeSinceLast == now - st.lastUpdateTime
    IN  IF isFinal \/ timeSinceLast >= STREAM_UPDATE_INTERVAL_MS
        THEN performUpdate(m, s, content, by, n)
        ELSE [m EXCEPT !.streams[s].pendingUpdate =
                 [set |-> TRUE, content |-> content,
                  at |-> now + (STREAM_UPDATE_INTERVAL_MS - timeSinceLast),
                  n |-> n]]

\* "Schedule or execute update" (lines 95-106).
scheduleOrExecute(m, s, content, isFinal, by, n) ==
    LET st == m.streams[s]
        timeSinceLast == now - st.lastUpdateTime
    IN  IF isFinal \/ timeSinceLast >= STREAM_UPDATE_INTERVAL_MS
        THEN performUpdate(m, s, content, by, n)
        ELSE IF ~st.pendingUpdate.set
        THEN [m EXCEPT !.streams[s].pendingUpdate =
                 [set |-> TRUE, content |-> content,
                  at |-> now + (STREAM_UPDATE_INTERVAL_MS - timeSinceLast),
                  n |-> n]]
        ELSE m

\* update(content) up to its first await (lines 51-107); isFinal defaults to
\* false and no caller passes it.
updateNoInitGuard(m0, s, content, by) ==
    LET m == [m0 EXCEPT !.lastCall = Called("update", s, content, @)]
        st == m.streams[s]
    IN  IF st.isFinalized THEN m
        ELSE IF content = st.lastContent THEN m
        ELSE IF st.messageId = 0
        THEN Issue([m EXCEPT !.streams[s].initializationPromise = TRUE],
                   [NetCall("sendCard", s, content, TRUE, by) EXCEPT !.n = m.lastCall.n],
                   Frame(by, "create", s, content, 0))
        ELSE scheduleOrExecute(m, s, content, FALSE, by, m.lastCall.n)

update(m0, s, content, by) ==
    LET m == [m0 EXCEPT !.lastCall = Called("update", s, content, @)]
        st == m.streams[s]
    IN  IF st.isFinalized THEN m
        ELSE IF content = st.lastContent THEN m
        ELSE IF st.messageId = 0
        THEN IF st.initializationPromise
             THEN [m EXCEPT !.calls = Append(@, [Frame(by, "awaitInit", s, content, 0)
                                                    EXCEPT !.n = m.lastCall.n])]
             ELSE Issue([m EXCEPT !.streams[s].initializationPromise = TRUE],
                        [NetCall("sendCard", s, content, TRUE, by) EXCEPT !.n = m.lastCall.n],
                        Frame(by, "create", s, content, 0))
        ELSE scheduleOrExecute(m, s, content, FALSE, by, m.lastCall.n)

\* The update() calls parked on `await this.initializationPromise` (line 59)
\* resume in arrival order once the promise has settled (lines 60-64, 95-106).
RECURSIVE resumeWaiters(_, _)
resumeWaiters(m, s) ==
    LET waiting == {k \in 1..Len(m.calls) :
                        m.calls[k].pc = "awaitInit" /\ m.calls[k].s = s}
    IN  IF waiting = {} THEN m
        ELSE LET k == CHOOSE x \in waiting : \A y \in waiting : x <= y
                 f == m.calls[k]
                 m1 == [m EXCEPT !.calls = RemoveAt(@, k)]
             IN  IF m1.streams[s].messageId = 0
                 THEN resumeWaiters(m1, s)
                 ELSE resumeWaiters(scheduleOrExecute(m1, s, f.text, FALSE, f.fn, f.n), s)

\* The initialisation closure after `await sendCardFeishu` (lines 79-87) and
\* the return of the update() that started it (lines 90-91).
createSettled(m0, i, ok) ==
    LET k == FrameOf(m0, i)
        f == m0.calls[k]
        s == f.s
        m1 == Settle([m0 EXCEPT !.calls = RemoveAt(@, k)], i, ok)
        m2 == IF ok
              THEN [m1 EXCEPT !.streams[s].messageId = i,
                              !.streams[s].lastContent = f.text,
                              !.streams[s].lastUpdateTime = now]
              ELSE [m1 EXCEPT !.errors = @ \cup {"create"}]
    IN  resumeWaiters([m2 EXCEPT !.streams[s].initializationPromise = FALSE], s)

\* performUpdate recording the content and the time whether or not the
\* network call succeeded.
performUpdateSettledRecordsFailure(m0, i, ok) ==
    LET k == FrameOf(m0, i)
        f == m0.calls[k]
        m1 == Settle([m0 EXCEPT !.calls = RemoveAt(@, k)], i, ok)
        m2 == [m1 EXCEPT !.streams[f.s].lastContent = f.text,
                         !.streams[f.s].lastUpdateTime = now]
    IN  IF ok THEN m2 ELSE [m2 EXCEPT !.errors = @ \cup {"update"}]

\* performUpdate after `await updateCardFeishu` (lines 119-123).
performUpdateSettled(m0, i, ok) ==
    LET k == FrameOf(m0, i)
        f == m0.calls[k]
        m1 == Settle([m0 EXCEPT !.calls = RemoveAt(@, k)], i, ok)
    IN  IF ok
        THEN [m1 EXCEPT !.streams[f.s].lastContent = f.text,
                        !.streams[f.s].lastUpdateTime = now]
        ELSE [m1 EXCEPT !.errors = @ \cup {"update"}]

\* finalize(content) without clearTimeout (lines 129-132).
finalizeKeepsTimer(m0, s, content) ==
    LET m == [m0 EXCEPT !.lastCall = Called("finalize", s, content, @)]
        st == m.streams[s]
    IN  IF st.isFinalized THEN m
        ELSE LET m1 == [m EXCEPT !.lastCall.cancelled = st.pendingUpdate.n]
             IN  IF st.messageId # 0
                 THEN Issue(m1, [NetCall("updateCard", s, content, FALSE, "finalize")
                                    EXCEPT !.final = Len(m1.finals), !.n = m.lastCall.n],
                            Frame("deliver", "finalize", s, content, 0))
                 ELSE m1

\* finalize(content) up to its await (lines 126-142); the frame is deliver's.
finalize(m0, s, content) ==
    LET m == [m0 EXCEPT !.lastCall = Called("finalize", s, content, @)]
        st == m.streams[s]
    IN  IF st.isFinalized THEN m
        ELSE LET m1 == [m EXCEPT !.streams[s].pendingUpdate = NoTimer,
                                 !.lastCall.cancelled = st.pendingUpdate.n]
             IN  IF st.messageId # 0
                 THEN Issue(m1, [NetCall("updateCard", s, content, FALSE, "finalize")
                                    EXCEPT !.final = Len(m1.finals), !.n = m.lastCall.n],
                            Frame("deliver", "finalize", s, content, 0))
                 ELSE m1

\* finalize after `await updateCardFeishu` (lines 143-146), then deliver
\* drops the stream (lines 241-242).
finalizeSettled(m0, i, ok) ==
    LET k == FrameOf(m0, i)
        f == m0.calls[k]
        m1 == Settle([m0 EXCEPT !.calls = RemoveAt(@, k)], i, ok)
        m2 == IF ok
              THEN [m1 EXCEPT !.streams[f.s].isFinalized = TRUE]
              ELSE [m1 EXCEPT !.errors = @ \cup {"finalize"}]
    IN  [m2 EXCEPT !.currentStream = 0]

\* ------------------------------------------------- typing indicator
\* start (lines 180-189), up to `await addTypingIndicator`.
startNoActiveGuard(m) ==
    IF m.currentStream # 0 /\ m.streams[m.currentStream].messageId # 0 THEN m
    ELSE IF ~replyToMessageId THEN m
    ELSE Issue(m, NetCall("addTyping", 0, <<>>, FALSE, "start"),
               Frame("start", "add", 0, <<>>, 0))

start(m) ==
    IF m.currentStream # 0 /\ m.streams[m.currentStream].messageId # 0 THEN m
    ELSE IF ~replyToMessageId THEN m
    ELSE IF m.typingState # 0 THEN m
    ELSE Issue(m, NetCall("addTyping", 0, <<>>, FALSE, "start"),
               Frame("start", "add", 0, <<>>, 0))

\* start after the await (lines 187-188); a rejection goes to onStartError
\* (lines 196-203), which logs.
startSettled(m0, i, ok) ==
    LET k == FrameOf(m0, i)
        m1 == Settle([m0 EXCEPT !.calls = RemoveAt(@, k)], i, ok)
    IN  IF ok THEN [m1 EXCEPT !.typingState = i]
        ELSE [m1 EXCEPT !.errors = @ \cup {"typing start"}]

\* stop (lines 190-195), up to `await removeTypingIndicator`.  fn names the
\* invocation that resumes when the removal settles: "stop" for a call nobody
\* awaits, "onPartialReply" for line 305 when the SDK's onIdle returns the
\* promise of stop.
stop(m0, fn, text) ==
    LET m == [m0 EXCEPT !.stopInvoked = TRUE] IN
    IF m.typingState = 0 THEN m
    ELSE Issue(m, NetCall("removeTyping", m.typingState, <<>>, FALSE, "stop"),
               Frame(fn, "remove", 0, text, 0))

\* onPartialReply from line 310 on.  currentStream is read when the line
\* runs; calling update on null throws a TypeError.
forwardPartial(m, text) ==
    IF m.currentStream = 0
    THEN [m EXCEPT !.errors = @ \cup {"onPartialReply"}]
    ELSE update(m, m.currentStream, text, "onPartialReply")

\* removeTypingIndicator of typing.ts, as section 4.3 of the design has it: a
\* failed removal is logged and not retried, and the state still resets, so
\* the promise resolves whether the removal call succeeded (ok) or not.
removeTypingIndicator(ok) == TRUE

\* stop resetting typingState only when the removal succeeded.
stopSettledKeepsOnFailure(m0, i, ok) ==
    LET k == FrameOf(m0, i)
        f == m0.calls[k]
        m1 == Settle([m0 EXCEPT !.calls = RemoveAt(@, k)], i, ok)
        m2 == IF ok THEN [m1 EXCEPT !.typingState = 0]
              ELSE [m1 EXCEPT !.errors = @ \cup {"typing stop"}]
    IN  IF f.fn = "onPartialReply" THEN forwardPartial(m2, f.text) ELSE m2

\* stop whose failed removal rejects through `await typingCallbacks.onIdle()`
\* (line 305), so that onPartialReply ends before it reaches update().
stopSettledRethrows(m0, i, ok) ==
    LET k == FrameOf(m0, i)
        f == m0.calls[k]
        m1 == Settle([m0 EXCEPT !.calls = RemoveAt(@, k)], i, ok)
        logged == IF ok THEN m1 ELSE [m1 EXCEPT !.errors = @ \cup {"typing stop"}]
        m2 == [logged EXCEPT !.typingState = 0]
    IN  IF f.fn = "onPartialReply" /\ ok THEN forwardPartial(m2, f.text) ELSE m2

\* stop after the await (lines 193-194): typingState is reset once
\* removeTypingIndicator has resolved; a rejection would go to onStopError
\* (lines 204-211), which logs and leaves typingState as it is.
stopSettled(m0, i, ok) ==
    LET k == FrameOf(m0, i)
        f == m0.calls[k]
        m1 == Settle([m0 EXCEPT !.calls = RemoveAt(@, k)], i, ok)
        logged == IF ok THEN m1 ELSE [m1 EXCEPT !.errors = @ \cup {"typing stop"}]
        m2 == IF removeTypingIndicator(ok)
              THEN [logged EXCEPT !.typingState = 0]
              ELSE logged
    IN  IF f.fn = "onPartialReply" THEN forwardPartial(m2, f.text) ELSE m2

\* ------------------------------------------------------------ deliver
IsSpace(ch) == ch \in {" ", "\n", "\r", "\t"}

\* String.prototype.trim
RECURSIVE trim(_)
trim(t) ==
    IF t = <<>> THEN t
    ELSE IF IsSpace(Head(t)) THEN trim(Tail(t))
    ELSE IF IsSpace(t[Len(t)]) THEN trim(SubSeq(t, 1, Len(t) - 1))
    ELSE t

\* The backtick character (the string lexer has no escape for it).
Backtick == "BQ"

\* shouldUseCard (lines 22-28): a fence, three backticks, then anything, then
\* three backticks; or
\* /\|.+\|[\r\n]+\|[-:| ]+\|/ matches somewhere in the text.
IsFenceAt(t, i) ==
    /\ i >= 1 /\ i + 2 <= Len(t)
    /\ t[i] = Backtick /\ t[i + 1] = Backtick /\ t[i + 2] = Backtick

shouldUseCard(t) ==
    LET P == 1..Len(t) IN
    \/ \E i, j \in P : IsFenceAt(t, i) /\ j >= i + 3 /\ IsFenceAt(t, j)
    \/ \E a, b, c, d \in P :
          /\ t[a] = "|" /\ b > a + 1 /\ t[b] = "|"
          /\ \A k \in (a + 1)..(b - 1) : t[k] \notin {"\n", "\r"}
          /\ c > b + 1 /\ t[c] = "|"
          /\ \A k \in (b + 1)..(c - 1) : t[k] \in {"\n", "\r"}
          /\ d > c + 1 /\ t[d] = "|"
          /\ \A k \in (c + 1)..(d - 1) : t[k] \in {"-", ":", "|", " "}

\* The SDK's chunkTextWithMode in its fixed-width mode: consecutive pieces of
\* at most TextChunkLimit characters, in the order of the text.
RECURSIVE chunkTextWithMode(_, _)
chunkTextWithMode(t, limit) ==
    IF t = <<>> THEN <<>>
    ELSE IF Len(t) <= limit THEN <<t>>
    ELSE <<SubSeq(t, 1, limit)>> \o chunkTextWithMode(SubSeq(t, limit + 1, Len(t)), limit)

\* The SDK's convertMarkdownTables with the table mode "off" (tableMode is
\* resolved from the configuration, lines 219-222): the text comes back
\* unchanged.
convertMarkdownTables(t) == t

\* A chunk loop that picks the send function for each chunk by the chunk's
\* own content instead of the branch deliver took for the payload.
sendChunkDecidesPerChunk(m, text, chunks, idx, card) ==
    LET useCard == renderMode = "card"
                   \/ (renderMode = "auto" /\ shouldUseCard(chunks[idx]))
    IN  Issue(m, [NetCall(IF useCard THEN "sendMarkdownCard" ELSE "sendMessage",
                          idx, chunks[idx], FALSE, "deliver")
                     EXCEPT !.final = Len(m.finals)],
              [Frame("deliver", "send", 0, text, 0) EXCEPT
                   !.chunks = chunks, !.idx = idx, !.card = card])

\* One iteration of the chunk loops (lines 257-264 and 270-277): the send of
\* chunk idx is issued and deliver parks on it.
sendChunk(m, text, chunks, idx, card) ==
    Issue(m, [NetCall(IF card THEN "sendMarkdownCard" ELSE "sendMessage",
                      idx, chunks[idx], FALSE, "deliver")
                 EXCEPT !.final = Len(m.finals)],
          [Frame("deliver", "send", 0, text, 0) EXCEPT
               !.chunks = chunks, !.idx = idx, !.card = card])

\* deliver without the test of the trimmed text (lines 234-236).
deliverNoBlankGuard(m0, text) ==
    LET m == [m0 EXCEPT !.finals = Append(@, text)] IN
    IF m.currentStream # 0
    THEN LET m1 == finalize(m, m.currentStream, text)
         IN  IF Len(m1.calls) > Len(m.calls) THEN m1
             ELSE [m1 EXCEPT !.currentStream = 0]
    ELSE LET useCard == renderMode = "card" \/ (renderMode = "auto" /\ shouldUseCard(text))
             converted == convertMarkdownTables(text)
             chunks == chunkTextWithMode(IF useCard THEN text ELSE converted,
                                         TextChunkLimit)
         IN  IF chunks = <<>> THEN m
             ELSE sendChunk(m, text, chunks, 1, useCard)

\* deliver without the test of currentStream (lines 239-243).
deliverIgnoresStream(m0, text) ==
    LET m == [m0 EXCEPT !.finals = Append(@, text)] IN
    IF trim(text) = <<>> THEN m0
    ELSE LET useCard == renderMode = "card" \/ (renderMode = "auto" /\ shouldUseCard(text))
             converted == convertMarkdownTables(text)
             chunks == chunkTextWithMode(IF useCard THEN text ELSE converted,
                                         TextChunkLimit)
         IN  IF chunks = <<>> THEN m
             ELSE sendChunk(m, text, chunks, 1, useCard)

\* deliver (lines 231-279) up to its first await.
deliver(m0, text) ==
    LET m == [m0 EXCEPT !.finals = Append(@, text)] IN
    IF trim(text) = <<>> THEN m0
    ELSE IF m.currentStream # 0
    THEN LET m1 == finalize(m, m.currentStream, text)
         IN  IF Len(m1.calls) > Len(m.calls) THEN m1
             ELSE [m1 EXCEPT !.currentStream = 0]
    ELSE LET useCard == renderMode = "card" \/ (renderMode = "auto" /\ shouldUseCard(text))
             converted == convertMarkdownTables(text)
             chunks == chunkTextWithMode(IF useCard THEN text ELSE converted,
                                         TextChunkLimit)
         IN  IF chunks = <<>> THEN m
             ELSE sendChunk(m, text, chunks, 1, useCard)

\* onError (lines 280-283): log, then typingCallbacks.onIdle() unawaited.
onError(m) ==
    stop([m EXCEPT !.errors = @ \cup {"deliver"}], "stop", <<>>)

\* The chunk loops after an await: the next chunk on success; on a rejection
\* deliver rejects and the SDK's dispatcher reports it through onError.
sendSettledSkipsWait(m0, i, ok) ==
    LET k == FrameOf(m0, i)
        f == m0.calls[k]
        m1 == Settle([m0 EXCEPT !.calls = RemoveAt(@, k)], i, ok)
    IN  IF ~ok THEN onError(m1)
        ELSE IF f.idx + 1 < Len(f.chunks)
        THEN sendChunk(sendChunk(m1, f.text, f.chunks, f.idx + 1, f.card),
                       f.text, f.chunks, f.idx + 2, f.card)
        ELSE IF f.idx < Len(f.chunks)
        THEN sendChunk(m1, f.text, f.chunks, f.idx + 1, f.card)
        ELSE m1

sendSettled(m0, i, ok) ==
    LET k == FrameOf(m0, i)
        f == m0.calls[k]
        m1 == Settle([m0 EXCEPT !.calls = RemoveAt(@, k)], i, ok)
    IN  IF ~ok THEN onError(m1)
        ELSE IF f.idx < Len(f.chunks)
        THEN sendChunk(m1, f.text, f.chunks, f.idx + 1, f.card)
        ELSE m1

\* --------------------------------------------------------------- actions
Inflight(i, ops) == net[i].status = "inflight" /\ net[i].op \in ops

Config == <<replyToMessageId, renderMode>>
Handler == <<cfgHistoryLimit, chatHistories, turn, nMsg, recorded, failure, second, lister>>
Dispatcher == <<typingState, currentStream, nStreams, streams, calls, net,
                lastCall, errors, finals, stopInvoked>>

\* handleFeishuMessage is suspended in `await dispatchReplyFromConfig`
\* (line 488): the SDK is running the agent and invokes the callbacks.
Dispatching == turn.pc = "dispatching"

\* The run of handleFeishuMessage that owns the dispatcher.
Turn(pc, chat, isGroup, replay) ==
    [pc |-> pc, chat |-> chat, isGroup |-> isGroup, replay |-> replay,
     cleared |-> <<>>, threw |-> FALSE]

\* The state after createFeishuReplyDispatcher has returned (lines 174-177),
\* for a configuration and a number of callbacks the SDK will invoke.
NewDispatcher(partials, delivers, starts, stops) ==
    [typingState |-> 0, currentStream |-> 0, nStreams |-> 0,
     streams |-> [s \in Streams |-> NewStream], calls |-> <<>>, net |-> <<>>,
     lastCall |-> [fn |-> "none", s |-> 0, text |-> <<>>, n |-> 0, cancelled |-> 0],
     errors |-> {}, finals |-> <<>>, stopInvoked |-> FALSE,
     budget |-> [partials |-> partials, delivers |-> delivers,
                 starts |-> starts, stops |-> stops]]

\* The closure variables of a dispatcher (lines 174-177) as a machine state.
MachineOf(d) ==
    [streams |-> d.streams, calls |-> d.calls, net |-> d.net, lastCall |-> d.lastCall,
     typingState |-> d.typingState, currentStream |-> d.currentStream,
     errors |-> d.errors, finals |-> d.finals, stopInvoked |-> d.stopInvoked]

\* listMessagesFeishu before it is invoked.  last is the latest response of
\* the API (token 0: no page_token), pageSize the page_size of the latest
\* request, calls the number of requests sent.
NewLister ==
    [pc |-> "idle", count |-> 0, pageToken |-> 0, productive |-> TRUE,
     messages |-> <<>>, hasMore |-> TRUE, currentPageToken |-> 0,
     pageSize |-> 0, calls |-> 0,
     last |-> [code |-> 0, items |-> <<>>, has_more |-> FALSE, page_token |-> 0]]

\* The handler state: the chatHistories map starts empty; pc tells whether a
\* run of handleFeishuMessage is already waiting for its dispatch.
InitMessages(pc, limits) ==
    /\ cfgHistoryLimit \in limits
    /\ chatHistories = [c \in Chats |-> <<>>]
    /\ turn = Turn(pc, "g1", TRUE, <<>>)
    /\ nMsg = 0
    /\ recorded = [c \in Chats |-> <<>>]
    /\ failure = [cause |-> "none", rejected |-> FALSE]

\* No second run of the handler and no invocation of listMessagesFeishu
\* exist.
NoSecond == [pc |-> "none"]

NoLister == [pc |-> "none"]

\* A second run of the handler before its message has arrived.
NewSecond ==
    [pc |-> "idle", chat |-> "g2", isGroup |-> TRUE,
     m |-> MachineOf(NewDispatcher(0, 0, 0, 0)), partials |-> 0]

InitHandler(pc, limits) ==
    /\ InitMessages(pc, limits)
    /\ second = NoSecond
    /\ lister = NoLister

InitWith(replyTo, modes, partials, delivers, starts, stops) ==
    /\ now = 0
    /\ replyToMessageId \in replyTo
    /\ renderMode \in modes
    /\ typingState = 0
    /\ currentStream = 0
    /\ nStreams = 0
    /\ streams = [s \in Streams |-> NewStream]
    /\ calls = <<>>
    /\ net = <<>>
    /\ lastCall = [fn |-> "none", s |-> 0, text |-> <<>>, n |-> 0, cancelled |-> 0]
    /\ errors = {}
    /\ finals = <<>>
    /\ stopInvoked = FALSE
    /\ budget = [partials |-> partials, delivers |-> delivers,
                 starts |-> starts, stops |-> stops]

Spend(what) ==
    /\ budget[what] > 0
    /\ budget' = [budget EXCEPT ![what] = @ - 1]

\* The clock advances.
Tick ==
    /\ now + TickMs <= MaxTime
    /\ now' = now + TickMs
    /\ UNCHANGED <<Handler, Config, typingState, currentStream, nStreams, streams, calls,
                   net, lastCall, errors, finals, stopInvoked, budget>>

\* The SDK invokes onReplyStart, which runs start.
OnReplyStart ==
    /\ Dispatching
    /\ Spend("starts")
    /\ Commit(start(Machine))
    /\ UNCHANGED <<Handler, now, Config, nStreams>>

\* The SDK invokes onIdle, which runs stop.
OnIdle ==
    /\ Dispatching
    /\ Spend("stops")
    /\ Commit(stop(Machine, "stop", <<>>))
    /\ UNCHANGED <<Handler, now, Config, nStreams>>

\* onPartialReply (lines 292-311).  Whether `await typingCallbacks.onIdle()`
\* waits for the removal depends on the SDK's wrapper: both are modelled.
OnPartialReply(text) ==
    /\ Dispatching
    /\ IF text = <<>>
       THEN UNCHANGED <<typingState, currentStream, nStreams, streams, calls,
                        net, lastCall, errors, finals, stopInvoked, budget>>
       ELSE IF currentStream # 0
       THEN /\ Spend("partials")
            /\ Commit(forwardPartial(Machine, text))
            /\ UNCHANGED nStreams
       ELSE /\ Spend("partials")
            /\ nStreams < MaxStreams
            /\ nStreams' = nStreams + 1
            /\ LET m == [Machine EXCEPT !.currentStream = nStreams + 1]
               IN  IF typingState = 0
                   THEN Commit(forwardPartial(m, text))
                   ELSE \/ Commit(stop(m, "onPartialReply", text))
                        \/ Commit(forwardPartial(stop(m, "stop", <<>>), text))
    /\ UNCHANGED <<Handler, now, Config>>

\* The SDK's dispatcher hands a Final payload to deliver; it runs one
\* delivery at a time.
Deliver(text) ==
    /\ Dispatching
    /\ \A k \in 1..Len(calls) : calls[k].fn # "deliver"
    /\ IF trim(text) = <<>> THEN budget.delivers > 0 /\ UNCHANGED budget ELSE Spend("delivers")
    /\ Commit(deliver(Machine, text))
    /\ UNCHANGED <<Handler, now, Config, nStreams>>

\* The SDK hands deliver a Final payload whose text is empty or blank; the
\* payload counts as one of the deliveries of the turn.
DeliverBlank(text) ==
    /\ Dispatching
    /\ \A k \in 1..Len(calls) : calls[k].fn # "deliver"
    /\ trim(text) = <<>>
    /\ Spend("delivers")
    /\ Commit(deliver(Machine, text))
    /\ UNCHANGED <<Handler, now, Config, nStreams>>

\* The pending timer of stream s fires (lines 102-105).
TimerFires(s) ==
    /\ streams[s].pendingUpdate.set
    /\ now >= streams[s].pendingUpdate.at
    /\ Commit(performUpdate([Machine EXCEPT !.streams[s].pendingUpdate = NoTimer],
                            s, streams[s].pendingUpdate.content, "timer",
                            streams[s].pendingUpdate.n))
    /\ UNCHANGED <<Handler, now, Config, nStreams, budget>>

\* A network call completes, successfully or not.
CreateSettles(i, ok) ==
    /\ Inflight(i, {"sendCard"})
    /\ Commit(createSettled(Machine, i, ok))
    /\ UNCHANGED <<Handler, now, Config, nStreams, budget>>

UpdateSettles(i, ok) ==
    /\ Inflight(i, {"updateCard"}) /\ net[i].streaming
    /\ Commit(performUpdateSettled(Machine, i, ok))
    /\ UNCHANGED <<Handler, now, Config, nStreams, budget>>

FinalizeSettles(i, ok) ==
    /\ Inflight(i, {"updateCard"}) /\ ~net[i].streaming
    /\ Commit(finalizeSettled(Machine, i, ok))
    /\ UNCHANGED <<Handler, now, Config, nStreams, budget>>

SendSettles(i, ok) ==
    /\ Inflight(i, {"sendMessage", "sendMarkdownCard"})
    /\ Commit(sendSettled(Machine, i, ok))
    /\ UNCHANGED <<Handler, now, Config, nStreams, budget>>

AddTypingSettles(i, ok) ==
    /\ Inflight(i, {"addTyping"})
    /\ Commit(startSettled(Machine, i, ok))
    /\ UNCHANGED <<Handler, now, Config, nStreams, budget>>

RemoveTypingSettles(i, ok) ==
    /\ Inflight(i, {"removeTyping"})
    /\ Commit(stopSettled(Machine, i, ok))
    /\ UNCHANGED <<Handler, now, Config, nStreams, budget>>

Completion(i, ok) ==
    \/ CreateSettles(i, ok)
    \/ UpdateSettles(i, ok)
    \/ FinalizeSettles(i, ok)
    \/ SendSettles(i, ok)
    \/ AddTypingSettles(i, ok)
    \/ RemoveTypingSettles(i, ok)

\* The streaming path of one turn: Partial events, the Final payload, the
\* timer and the card calls.  The SDK invokes no typing callback.
InitStream ==
    /\ InitWith({TRUE}, {"auto"}, MaxPartials, MaxDelivers, 0, 0)
    /\ InitHandler("dispatching", {MaxHistoryLimit})

NextStream ==
    \/ Tick
    \/ \E text \in PartialTexts : OnPartialReply(text)
    \/ \E text \in FinalTexts : Deliver(text)
    \/ \E s \in Streams : TimerFires(s)
    \/ \E i \in 1..Len(net), ok \in BOOLEAN :
          \/ CreateSettles(i, ok)
          \/ UpdateSettles(i, ok)
          \/ FinalizeSettles(i, ok)
          \/ SendSettles(i, ok)

SpecStream == InitStream /\ [][NextStream]_vars


\* The streaming path of one turn whose Partial events alternate between two
\* contents.
NextRevised ==
    \/ Tick
    \/ \E text \in RevisedTexts : OnPartialReply(text)
    \/ \E text \in FinalTexts : Deliver(text)
    \/ \E s \in Streams : TimerFires(s)
    \/ \E i \in 1..Len(net), ok \in BOOLEAN :
          \/ CreateSettles(i, ok)
          \/ UpdateSettles(i, ok)
          \/ FinalizeSettles(i, ok)
          \/ SendSettles(i, ok)

SpecRevised == InitStream /\ [][NextRevised]_vars

\* The chunk path of one turn: Final payloads sent through the chunk loops in
\* each render mode.  The agent produces no Partial event and the SDK invokes
\* no typing callback.
InitChunks ==
    /\ InitWith({TRUE}, {"auto", "raw", "card"}, 0, MaxDelivers, 0, 0)
    /\ InitHandler("dispatching", {MaxHistoryLimit})

NextChunks ==
    \/ \E text \in ReplyTexts : Deliver(text)
    \/ \E i \in 1..Len(net), ok \in BOOLEAN : SendSettles(i, ok)

SpecChunks == InitChunks /\ [][NextChunks]_vars

\* One turn in which the Final payload may be blank: Partial events, the
\* timer, the card calls and a Final payload with or without text.
InitBlank ==
    /\ InitWith({TRUE}, {"auto"}, MaxPartials - 1, MaxDelivers, 0, 0)
    /\ InitHandler("dispatching", {MaxHistoryLimit})

NextBlank ==
    \/ Tick
    \/ \E text \in PartialTexts : OnPartialReply(text)
    \/ \E text \in FinalTexts : Deliver(text)
    \/ \E text \in BlankTexts : DeliverBlank(text)
    \/ \E s \in Streams : TimerFires(s)
    \/ \E i \in 1..Len(net), ok \in BOOLEAN :
          \/ CreateSettles(i, ok)
          \/ UpdateSettles(i, ok)
          \/ FinalizeSettles(i, ok)
          \/ SendSettles(i, ok)

SpecBlank == InitBlank /\ [][NextBlank]_vars

\* One FeishuStream object (the first) driven through its public methods by
\* a caller that keeps its reference: update() and finalize() in any order,
\* at any time.
StreamUpdate(s, text) ==
    /\ Spend("partials")
    /\ Commit(update(Machine, s, text, "caller"))
    /\ UNCHANGED <<Handler, now, Config, nStreams>>

StreamFinalize(s, text) ==
    /\ Spend("delivers")
    /\ Commit(finalize(Machine, s, text))
    /\ UNCHANGED <<Handler, now, Config, nStreams>>

InitObject ==
    /\ InitWith({TRUE}, {"auto"}, MaxPartials, MaxDelivers, 0, 0)
    /\ InitHandler("dispatching", {MaxHistoryLimit})

NextObject ==
    \/ Tick
    \/ \E text \in {<<"a">>, <<"b">>} : StreamUpdate(1, text)
    \/ StreamFinalize(1, <<"z">>)
    \/ \E s \in Streams : TimerFires(s)
    \/ \E i \in 1..Len(net), ok \in BOOLEAN :
          \/ CreateSettles(i, ok)
          \/ UpdateSettles(i, ok)
          \/ FinalizeSettles(i, ok)

SpecObject == InitObject /\ [][NextObject]_vars

\* The typing callbacks of one dispatcher, invoked by the SDK in any order
\* and without waiting for one another.
InitTyping ==
    /\ InitWith(BOOLEAN, {"auto"}, 0, 0, MaxStarts, MaxStops)
    /\ InitHandler("dispatching", {MaxHistoryLimit})

NextTyping ==
    \/ OnReplyStart
    \/ OnIdle
    \/ \E i \in 1..Len(net), ok \in BOOLEAN :
          \/ AddTypingSettles(i, ok)
          \/ RemoveTypingSettles(i, ok)

SpecTyping == InitTyping /\ [][NextTyping]_vars

\* One turn with the typing indicator and streaming: the SDK invokes
\* onReplyStart, and Partial events arrive whether or not the creation of the
\* indicator has resolved.
InitStreamTyping ==
    /\ InitWith({TRUE}, {"auto"}, MaxPartials - 1, 0, MaxStarts - 1, 0)
    /\ InitHandler("dispatching", {MaxHistoryLimit})

NextStreamTyping ==
    \/ Tick
    \/ OnReplyStart
    \/ \E text \in RevisedTexts : OnPartialReply(text)
    \/ \E s \in Streams : TimerFires(s)
    \/ \E i \in 1..Len(net), ok \in BOOLEAN :
          \/ CreateSettles(i, ok)
          \/ UpdateSettles(i, ok)
          \/ AddTypingSettles(i, ok)
          \/ RemoveTypingSettles(i, ok)

SpecStreamTyping == InitStreamTyping /\ [][NextStreamTyping]_vars

\* One turn, within one debounce interval, in which the calls of the typing
\* indicator may fail: onReplyStart, Partial events and the Final payload.
InitTypingErrors ==
    /\ InitWith({TRUE}, {"auto"}, MaxPartials - 2, MaxDelivers, MaxStarts - 1, 0)
    /\ InitHandler("dispatching", {MaxHistoryLimit})

NextTypingErrors ==
    \/ OnReplyStart
    \/ OnPartialReply(<<"a">>)
    \/ Deliver(<<"z">>)
    \/ \E i \in 1..Len(net), ok \in BOOLEAN :
          \/ CreateSettles(i, ok)
          \/ FinalizeSettles(i, ok)
          \/ SendSettles(i, ok)
          \/ AddTypingSettles(i, ok)
          \/ RemoveTypingSettles(i, ok)

SpecTypingErrors == InitTypingErrors /\ [][NextTypingErrors]_vars

\* The typing callbacks invoked one after the other: the SDK invokes the
\* next callback only when the promise of the previous one has settled.
OnReplyStartAwaited == calls = <<>> /\ OnReplyStart

OnIdleAwaited == calls = <<>> /\ OnIdle

InitTypingSeq ==
    /\ InitWith(BOOLEAN, {"auto"}, 0, 0, MaxStarts + 1, MaxStops + 1)
    /\ InitHandler("dispatching", {MaxHistoryLimit})

NextTypingSeq ==
    \/ OnReplyStartAwaited
    \/ OnIdleAwaited
    \/ \E i \in 1..Len(net), ok \in BOOLEAN :
          \/ AddTypingSettles(i, ok)
          \/ RemoveTypingSettles(i, ok)

SpecTypingSeq == InitTypingSeq /\ [][NextTypingSeq]_vars

\* ------------------------------------------------ handleFeishuMessage
\* historyLimit without Math.max(0, ..).
historyLimitUnclamped == cfgHistoryLimit

\* historyLimit (lines 246-249).
historyLimit == IF cfgHistoryLimit > 0 THEN cfgHistoryLimit ELSE 0

\* The last n elements of a sequence.
LastN(seq, n) == IF Len(seq) <= n THEN seq ELSE SubSeq(seq, Len(seq) - n + 1, Len(seq))

\* The SDK's pending-history operations, as section 4.5 of the design
\* describes them.
recordPendingHistoryEntryIfEnabled(historyMap, historyKey, entry, limit) ==
    IF limit <= 0 THEN historyMap
    ELSE [historyMap EXCEPT ![historyKey] = LastN(Append(@, entry), limit)]

buildPendingHistoryContextFromMap(historyMap, historyKey, limit, currentMessage) ==
    historyMap[historyKey] \o <<currentMessage>>

clearHistoryEntriesIfEnabled(historyMap, historyKey, limit) ==
    IF limit <= 0 THEN historyMap ELSE [historyMap EXCEPT ![historyKey] = <<>>]

\* An inbound message as handleFeishuMessage sees it: the chat, its type, the
\* verdict of the allowlist checks (lines 257-281 and 311-320) and whether a
\* required mention of the bot is missing (lines 289).
Messages ==
    [chat : Chats, chatType : {"group", "p2p"}, allowed : BOOLEAN,
     unmentioned : BOOLEAN]

\* handleFeishuMessage recording the message before the allowlist checks.
HandleRejectedRecords(msg) ==
    /\ nMsg < MaxMessages
    /\ ~msg.allowed
    /\ nMsg' = nMsg + 1
    /\ chatHistories' = recordPendingHistoryEntryIfEnabled(
           chatHistories, msg.chat, [messageId |-> nMsg + 1], historyLimit)
    /\ UNCHANGED <<lister, cfgHistoryLimit, failure, second, turn, recorded, now, Config,
                   Dispatcher, budget>>

\* handleFeishuMessage for a message the policy rejects (lines 251-281 and
\* 307-320): it returns and changes nothing.
HandleRejected(msg) ==
    /\ nMsg < MaxMessages
    /\ ~msg.allowed
    /\ nMsg' = nMsg + 1
    /\ UNCHANGED <<lister, cfgHistoryLimit, failure, second, chatHistories, turn, recorded, now, Config,
                   Dispatcher, budget>>

\* handleFeishuMessage for a group message that lacks the required mention
\* (lines 283-306): the entry is recorded and the handler returns.
HandleSuppressed(msg) ==
    /\ nMsg < MaxMessages
    /\ msg.chatType = "group" /\ msg.allowed /\ msg.unmentioned
    /\ nMsg' = nMsg + 1
    /\ chatHistories' = recordPendingHistoryEntryIfEnabled(
           chatHistories, msg.chat, [messageId |-> nMsg + 1], historyLimit)
    /\ recorded' = [recorded EXCEPT ![msg.chat] = Append(@, [messageId |-> nMsg + 1])]
    /\ UNCHANGED <<lister, cfgHistoryLimit, failure, second, turn, now, Config, Dispatcher, budget>>

\* handleFeishuMessage clearing the history as soon as the prefix is built,
\* before the dispatch.
HandleAuthorizedClearsEarly(msg) ==
    /\ nMsg < MaxMessages
    /\ msg.allowed
    /\ msg.chatType = "group" => ~msg.unmentioned
    /\ turn.pc # "dispatching"
    /\ nMsg' = nMsg + 1
    /\ LET isGroup == msg.chatType = "group"
           combinedBody ==
               IF isGroup
               THEN buildPendingHistoryContextFromMap(
                        chatHistories, msg.chat, historyLimit, [messageId |-> nMsg + 1])
               ELSE <<[messageId |-> nMsg + 1]>>
           d == NewDispatcher(0, MaxDelivers, 1, 0)
       IN  /\ turn' = Turn("dispatching", msg.chat, isGroup,
                           SubSeq(combinedBody, 1, Len(combinedBody) - 1))
           /\ typingState' = d.typingState
           /\ currentStream' = d.currentStream
           /\ nStreams' = d.nStreams
           /\ streams' = d.streams
           /\ calls' = d.calls
           /\ net' = d.net
           /\ lastCall' = d.lastCall
           /\ errors' = d.errors
           /\ finals' = d.finals
           /\ stopInvoked' = d.stopInvoked
           /\ budget' = d.budget
    /\ chatHistories' =
           IF msg.chatType = "group"
           THEN clearHistoryEntriesIfEnabled(chatHistories, msg.chat, historyLimit)
           ELSE chatHistories
    /\ UNCHANGED <<lister, cfgHistoryLimit, failure, second, recorded, now, Config>>

\* handleFeishuMessage for an authorized message, up to
\* `await dispatchReplyFromConfig` (lines 323-488): the replay prefix is
\* built and a dispatcher is created.  Authorized turns run one after the
\* other; the dispatcher variables describe the dispatcher of the latest.
HandleAuthorized(msg) ==
    /\ nMsg < MaxMessages
    /\ msg.allowed
    /\ msg.chatType = "group" => ~msg.unmentioned
    /\ turn.pc # "dispatching"
    /\ nMsg' = nMsg + 1
    /\ LET isGroup == msg.chatType = "group"
           combinedBody ==
               IF isGroup
               THEN buildPendingHistoryContextFromMap(
                        chatHistories, msg.chat, historyLimit, [messageId |-> nMsg + 1])
               ELSE <<[messageId |-> nMsg + 1]>>
           d == NewDispatcher(0, MaxDelivers, 1, 0)
       IN  /\ turn' = Turn("dispatching", msg.chat, isGroup,
                           SubSeq(combinedBody, 1, Len(combinedBody) - 1))
           /\ typingState' = d.typingState
           /\ currentStream' = d.currentStream
           /\ nStreams' = d.nStreams
           /\ streams' = d.streams
           /\ calls' = d.calls
           /\ net' = d.net
           /\ lastCall' = d.lastCall
           /\ errors' = d.errors
           /\ finals' = d.finals
           /\ stopInvoked' = d.stopInvoked
           /\ budget' = d.budget
    /\ UNCHANGED <<lister, cfgHistoryLimit, failure, second, chatHistories, recorded, now, Config>>

\* The handler clearing the whole chatHistories map after the dispatch.
DispatchReturnsClearsAll ==
    /\ Dispatching
    /\ \A k \in 1..Len(calls) : calls[k].fn # "deliver"
    /\ Commit(stop(Machine, "stop", <<>>))
    /\ chatHistories' =
           IF turn.isGroup /\ historyLimit > 0
           THEN [c \in Chats |-> <<>>]
           ELSE chatHistories
    /\ turn' = [turn EXCEPT !.pc = "done",
                            !.cleared = IF turn.isGroup /\ historyLimit > 0
                                        THEN chatHistories[turn.chat] ELSE <<>>]
    /\ recorded' = IF turn.isGroup /\ historyLimit > 0
                   THEN [recorded EXCEPT ![turn.chat] = <<>>] ELSE recorded
    /\ UNCHANGED <<lister, cfgHistoryLimit, failure, second, nMsg, now, Config, nStreams, budget>>

\* dispatchReplyFromConfig resolves once the deliveries have drained; the
\* handler goes on (lines 495-507): markDispatchIdle(), which makes the SDK
\* invoke onIdle, then the history of the chat is cleared.
DispatchReturns ==
    /\ Dispatching
    /\ \A k \in 1..Len(calls) : calls[k].fn # "deliver"
    /\ Commit(stop(Machine, "stop", <<>>))
    /\ chatHistories' =
           IF turn.isGroup
           THEN clearHistoryEntriesIfEnabled(chatHistories, turn.chat, historyLimit)
           ELSE chatHistories
    /\ turn' = [turn EXCEPT !.pc = "done",
                            !.cleared = IF turn.isGroup /\ historyLimit > 0
                                        THEN chatHistories[turn.chat] ELSE <<>>]
    /\ recorded' = IF turn.isGroup /\ historyLimit > 0
                   THEN [recorded EXCEPT ![turn.chat] = <<>>] ELSE recorded
    /\ UNCHANGED <<lister, cfgHistoryLimit, failure, second, nMsg, now, Config, nStreams, budget>>

\* dispatchReplyFromConfig rejects; the catch block logs (lines 508-510).
DispatchThrows ==
    /\ Dispatching
    /\ turn' = [turn EXCEPT !.pc = "done", !.threw = TRUE]
    /\ errors' = errors \cup {"dispatch"}
    /\ UNCHANGED <<lister, cfgHistoryLimit, failure, second, chatHistories, nMsg, recorded, now, Config, budget,
                   typingState, currentStream, nStreams, streams, calls, net,
                   lastCall, finals, stopInvoked>>

\* handleFeishuMessage for a message whose allow check throws
\* (isFeishuGroupAllowed, resolveFeishuReplyPolicy or
\* resolveFeishuAllowlistMatch, lines 251-320): the calls stand before the
\* try block, so the promise of the handler rejects with the error.
AllowCheckThrows(msg) ==
    /\ nMsg < MaxMessages
    /\ nMsg' = nMsg + 1
    /\ failure' = [cause |-> "allowCheck", rejected |-> TRUE]
    /\ UNCHANGED <<lister, cfgHistoryLimit, second, chatHistories, turn, recorded, now, Config,
                   Dispatcher, budget>>

\* handleFeishuMessage for an authorized message whose resolveAgentRoute
\* throws (line 329): the call stands inside the try block (line 323), the
\* catch block logs the error (lines 508-510) and the handler resolves.
ResolveAgentRouteThrows(msg) ==
    /\ nMsg < MaxMessages
    /\ msg.allowed
    /\ msg.chatType = "group" => ~msg.unmentioned
    /\ nMsg' = nMsg + 1
    /\ failure' = [cause |-> "route", rejected |-> FALSE]
    /\ UNCHANGED <<lister, cfgHistoryLimit, second, chatHistories, turn, recorded, now, Config,
                   Dispatcher, budget>>

\* Inbound messages handled one turn at a time, without streaming.
InitTurn ==
    /\ InitWith({TRUE}, {"raw"}, 0, 0, 0, 0)
    /\ InitHandler("idle", (0 - 1)..MaxHistoryLimit)

NextTurn ==
    \/ \E msg \in Messages : HandleRejected(msg)
    \/ \E msg \in Messages : HandleSuppressed(msg)
    \/ \E msg \in Messages : HandleAuthorized(msg)
    \/ OnReplyStart
    \/ \E text \in TurnTexts : Deliver(text)
    \/ DispatchReturns
    \/ DispatchThrows
    \/ \E i \in 1..Len(net), ok \in BOOLEAN :
          \/ SendSettles(i, ok)
          \/ AddTypingSettles(i, ok)
          \/ RemoveTypingSettles(i, ok)

SpecTurn == InitTurn /\ [][NextTurn]_vars

\* A second run of handleFeishuMessage that reaches its dispatch while the
\* first may still be waiting for its own: createFeishuReplyDispatcher gives
\* it closure variables of its own (part_002 lines 174-177), the
\* chatHistories map is the one both runs were given.
SecondAuthorized(msg) ==
    /\ nMsg < MaxMessages
    /\ msg.allowed
    /\ msg.chatType = "group" => ~msg.unmentioned
    /\ second.pc # "dispatching"
    /\ nMsg' = nMsg + 1
    /\ second' = [pc |-> "dispatching", chat |-> msg.chat,
                  isGroup |-> msg.chatType = "group",
                  m |-> MachineOf(NewDispatcher(0, 0, 0, 0)),
                  partials |-> 1]
    /\ UNCHANGED <<lister, cfgHistoryLimit, failure, chatHistories, turn, recorded, now, Config,
                   Dispatcher, budget>>

\* The SDK hands a Partial event to the second dispatcher, which streams and
\* is sent no onReplyStart (its typingState stays null, lines 303-306).
SecondOnPartialReply(text) ==
    /\ second.pc = "dispatching" /\ second.partials > 0
    /\ LET m0 == second.m
           m == IF m0.currentStream # 0 THEN m0 ELSE [m0 EXCEPT !.currentStream = 1]
       IN  second' = [second EXCEPT !.m = forwardPartial(m, text), !.partials = @ - 1]
    /\ UNCHANGED <<lister, cfgHistoryLimit, failure, chatHistories, turn, nMsg, recorded, now,
                   Config, Dispatcher, budget>>

\* A network call of the second dispatcher completes.
SecondSettles(i, ok) ==
    /\ i \in 1..Len(second.m.net)
    /\ second.m.net[i].status = "inflight"
    /\ second.m.net[i].op = "sendCard"
    /\ second' = [second EXCEPT !.m = createSettled(@, i, ok)]
    /\ UNCHANGED <<lister, cfgHistoryLimit, failure, chatHistories, turn, nMsg, recorded, now,
                   Config, Dispatcher, budget>>

\* The second run clearing the history under the key of the first run.
SecondReturnsSharedKey ==
    /\ second.pc = "dispatching"
    /\ second' = [second EXCEPT !.pc = "done", !.m = stop(@, "stop", <<>>)]
    /\ chatHistories' =
           IF second.isGroup
           THEN clearHistoryEntriesIfEnabled(chatHistories, turn.chat, historyLimit)
           ELSE chatHistories
    /\ recorded' = IF second.isGroup /\ historyLimit > 0
                   THEN [recorded EXCEPT ![turn.chat] = <<>>] ELSE recorded
    /\ UNCHANGED <<lister, cfgHistoryLimit, failure, turn, nMsg, now, Config, Dispatcher, budget>>

\* The dispatch of the second run resolves (part_000 lines 495-507).
SecondReturns ==
    /\ second.pc = "dispatching"
    /\ second' = [second EXCEPT !.pc = "done", !.m = stop(@, "stop", <<>>)]
    /\ chatHistories' =
           IF second.isGroup
           THEN clearHistoryEntriesIfEnabled(chatHistories, second.chat, historyLimit)
           ELSE chatHistories
    /\ recorded' = IF second.isGroup /\ historyLimit > 0
                   THEN [recorded EXCEPT ![second.chat] = <<>>] ELSE recorded
    /\ UNCHANGED <<lister, cfgHistoryLimit, failure, turn, nMsg, now, Config, Dispatcher, budget>>

\* Two runs of handleFeishuMessage whose dispatches overlap, next to messages
\* that are only recorded; the history is enabled.
InitConcurrent ==
    /\ InitWith({TRUE}, {"raw"}, 0, 0, 0, 0)
    /\ InitMessages("idle", {MaxHistoryLimit})
    /\ second = NewSecond
    /\ lister = NoLister

NextConcurrent ==
    \/ \E msg \in Messages : HandleSuppressed(msg)
    \/ \E msg \in Messages : HandleAuthorized(msg)
    \/ \E msg \in Messages : SecondAuthorized(msg)
    \/ OnReplyStart
    \/ SecondOnPartialReply(<<"a">>)
    \/ DispatchReturns
    \/ SecondReturns
    \/ \E i \in 1..Len(net), ok \in BOOLEAN :
          \/ AddTypingSettles(i, ok)
          \/ RemoveTypingSettles(i, ok)
    \/ \E i \in 1..Len(second.m.net), ok \in BOOLEAN : SecondSettles(i, ok)

SpecConcurrent == InitConcurrent /\ [][NextConcurrent]_vars

\* ------------------------------------------------- listMessagesFeishu
\* `count` values: small ones and one above the page size of the API.
Counts == (0..MaxCount) \cup {50 + MaxCount}

\* The `pageToken` parameter: undefined (0) or the position to resume from.
StartTokens == {0, 7}

\* Math.min(50, count) (send.ts line 140).
pageSize(count) == IF 50 < count THEN 50 ELSE count

\* The item loop (send.ts lines 159-196): each item is pushed, in order,
\* until `messages.length >= count` breaks the loop.  An item is modelled by
\* its message_id.
RECURSIVE pushItems(_, _, _)
pushItems(messages, items, count) ==
    IF items = <<>> \/ Len(messages) >= count THEN messages
    ELSE pushItems(Append(messages, Head(items)), Tail(items), count)

\* The head of the while loop (line 142): the next request is sent, or the
\* function returns (lines 204-209).
listLoop(l) ==
    IF l.hasMore /\ Len(l.messages) < l.count
    THEN [l EXCEPT !.pc = "awaiting", !.calls = @ + 1, !.pageSize = pageSize(l.count)]
    ELSE [l EXCEPT !.pc = "returned"]

\* The loop body after the await, without `if (!currentPageToken)`.
listResponseKeepsHasMore(l, response) ==
    IF response.code # 0
    THEN [l EXCEPT !.pc = "threw", !.last = response]
    ELSE listLoop([l EXCEPT !.messages = pushItems(@, response.items, l.count),
                            !.hasMore = response.has_more,
                            !.currentPageToken = response.page_token,
                            !.last = response])

\* The loop body after `await client.im.message.list` (lines 154-202) and the
\* next evaluation of the loop condition.
listResponse(l, response) ==
    IF response.code # 0
    THEN [l EXCEPT !.pc = "threw", !.last = response]
    ELSE listLoop([l EXCEPT !.messages = pushItems(@, response.items, l.count),
                            !.hasMore = response.has_more /\ response.page_token # 0,
                            !.currentPageToken = response.page_token,
                            !.last = response])

\* The pages the backend may answer a request with: the k items that follow
\* the position of the request's page_token, at most page_size of them; a
\* productive backend serves at least one item on every page that has more.
Responses(l) ==
    LET ks == {k \in 0..l.pageSize : k <= MaxItems \/ k = l.pageSize}
    IN  {[code |-> 0,
          items |-> [i \in 1..k |-> l.currentPageToken + i],
          has_more |-> more,
          page_token |-> IF tok THEN l.currentPageToken + k ELSE 0] :
            k \in ks, more \in BOOLEAN, tok \in BOOLEAN}
        \cup {[code |-> 1, items |-> <<>>, has_more |-> FALSE, page_token |-> 0]}

Others == <<cfgHistoryLimit, chatHistories, turn, nMsg, recorded, failure, second,
            now, Config, Dispatcher, budget>>

\* listMessagesFeishu is invoked (lines 113-142): without a Feishu
\* configuration it throws, otherwise it runs up to its first await.
ListMessagesFeishu(count, pageToken, productive, configured) ==
    /\ lister.pc = "idle"
    /\ lister' = IF ~configured THEN [lister EXCEPT !.pc = "threw", !.count = count]
                 ELSE listLoop([lister EXCEPT !.count = count, !.pageToken = pageToken,
                                              !.currentPageToken = pageToken,
                                              !.productive = productive])
    /\ UNCHANGED Others

\* The API answers the request in flight.
ListResponds(response) ==
    /\ lister.pc = "awaiting"
    /\ (/\ lister.productive /\ response.code = 0
        /\ response.has_more /\ response.page_token # 0)
       => response.items # <<>>
    /\ lister.productive \/ lister.calls < MaxListCalls
          \/ listResponse(lister, response).pc # "awaiting"
    /\ lister' = listResponse(lister, response)
    /\ UNCHANGED Others

InitList ==
    /\ InitWith({TRUE}, {"auto"}, 0, 0, 0, 0)
    /\ InitMessages("idle", {MaxHistoryLimit})
    /\ second = NoSecond
    /\ lister = NewLister

NextList ==
    \/ \E count \in Counts, pageToken \in StartTokens, productive, configured \in BOOLEAN :
          ListMessagesFeishu(count, pageToken, productive, configured)
    \/ \E response \in Responses(lister) : ListResponds(response)

SpecList == InitList /\ [][NextList]_vars

\* Turns that replay the pending history of their chat and send a reply,
\* with history buffering enabled.
InitReplay ==
    /\ InitWith({TRUE}, {"raw"}, 0, 0, 0, 0)
    /\ InitHandler("idle", {MaxHistoryLimit})

NextReplay ==
    \/ \E msg \in Messages : HandleSuppressed(msg)
    \/ \E msg \in Messages : HandleAuthorized(msg)
    \/ OnReplyStart
    \/ Deliver(<<"x", "y">>)
    \/ DispatchReturns
    \/ \E i \in 1..Len(net), ok \in BOOLEAN :
          \/ SendSettles(i, ok)
          \/ AddTypingSettles(i, ok)
          \/ RemoveTypingSettles(i, ok)

SpecReplay == InitReplay /\ [][NextReplay]_vars

\* Inbound messages of every kind arriving while a turn runs its typing
\* indicator, with history buffering disabled (limit 0 or below) or enabled.
InitAdmission ==
    /\ InitWith({TRUE}, {"raw"}, 0, 0, 0, 0)
    /\ InitHandler("idle", (0 - 1)..MaxHistoryLimit)

NextAdmission ==
    \/ \E msg \in Messages : HandleRejected(msg)
    \/ \E msg \in Messages : HandleSuppressed(msg)
    \/ \E msg \in Messages : HandleAuthorized(msg)
    \/ OnReplyStart
    \/ DispatchReturns
    \/ \E i \in 1..Len(net), ok \in BOOLEAN :
          \/ AddTypingSettles(i, ok)
          \/ RemoveTypingSettles(i, ok)

SpecAdmission == InitAdmission /\ [][NextAdmission]_vars

\* Inbound messages whose allow check or route resolution may throw, next to
\* the turns of the messages that pass.
NextPolicy ==
    \/ \E msg \in Messages : HandleRejected(msg)
    \/ \E msg \in Messages : HandleSuppressed(msg)
    \/ \E msg \in Messages : HandleAuthorized(msg)
    \/ \E msg \in Messages : AllowCheckThrows(msg)
    \/ \E msg \in Messages : ResolveAgentRouteThrows(msg)
    \/ OnReplyStart
    \/ \E text \in TurnTexts : Deliver(text)
    \/ DispatchReturns
    \/ \E i \in 1..Len(net), ok \in BOOLEAN :
          \/ SendSettles(i, ok)
          \/ AddTypingSettles(i, ok)
          \/ RemoveTypingSettles(i, ok)

SpecPolicy == InitTurn /\ [][NextPolicy]_vars

\* ------------------------------------------------------- derived views
Nets == 1..Len(net)

IsCreate(i) == net[i].op = "sendCard"
IsProgress(i) == net[i].op = "updateCard" /\ net[i].streaming
IsFinal(i) == net[i].op = "updateCard" /\ ~net[i].streaming
IsSend(i) == net[i].op \in {"sendMessage", "sendMarkdownCard"}

IsAddTyping(i) == net[i].op = "addTyping"
IsRemoveTyping(i) == net[i].op = "removeTyping"

\* The chunks deliver computes for Final payload d (lines 255 and 267-268).
ChunksOf(d) == chunkTextWithMode(convertMarkdownTables(finals[d]), TextChunkLimit)

\* No invocation of deliver is running.
DeliverIdle == \A k \in 1..Len(calls) : calls[k].fn # "deliver"

\* Indicator i has been removed on the backend.
Removed(i) ==
    \E j \in Nets : IsRemoveTyping(j) /\ net[j].ref = i /\ net[j].status = "ok"

\* An update() call entered stream s in this step.
UpdateArrives(s) ==
    /\ lastCall'.n = lastCall.n + 1
    /\ lastCall'.fn = "update"
    /\ lastCall'.s = s

\* A finalize() call entered stream s in this step.
FinalizeArrives(s) ==
    /\ lastCall'.n = lastCall.n + 1
    /\ lastCall'.fn = "finalize"
    /\ lastCall'.s = s

\* --------------------------------------------------------------- claims

\* C1: while a scheduled update is pending on a live stream and its timer is
\* not yet due, an update() with another content (different from the pending
\* one and from the last one sent) replaces the pending content.
C1_PendingReplaced ==
    [][\A s \in Streams :
          ( /\ UpdateArrives(s)
            /\ streams[s].messageId # 0
            /\ ~streams[s].isFinalized
            /\ streams[s].pendingUpdate.set
            /\ now < streams[s].pendingUpdate.at
            /\ streams[s].pendingUpdate.content # streams[s].lastContent
            /\ lastCall'.text # streams[s].pendingUpdate.content
            /\ lastCall'.text # streams[s].lastContent )
          => ( /\ streams'[s].pendingUpdate.set
               /\ streams'[s].pendingUpdate.content = lastCall'.text )]_vars

\* C2: once finalize(content) has been called on a stream that was not
\* finalized, exactly one network call carries the final content with the
\* done marker, whether the stream was Empty, Initializing or Live.
C2_FinalizeSendsOnce ==
    \A s \in Streams :
        (lastCall.fn = "finalize" /\ lastCall.s = s)
        => Cardinality({i \in Nets : IsFinal(i) /\ net[i].ref = s
                                      /\ net[i].text = lastCall.text}) = 1

\* C3: at most one create call of a stream is outstanding at any time, an
\* update() parked on the creation exists only while the creation is in
\* flight, and no create call is issued after the one that recorded the
\* message id.
C3_SingleCreate ==
    \A s \in Streams :
        /\ Cardinality({i \in Nets : IsCreate(i) /\ net[i].ref = s
                                      /\ net[i].status = "inflight"}) <= 1
        /\ \A k \in 1..Len(calls) :
              (calls[k].pc = "awaitInit" /\ calls[k].s = s)
              => /\ streams[s].initializationPromise
                 /\ \E i \in Nets : IsCreate(i) /\ net[i].ref = s
                                     /\ net[i].status = "inflight"
        /\ streams[s].messageId # 0
           => \A i \in Nets : (IsCreate(i) /\ net[i].ref = s)
                               => i <= streams[s].messageId

\* C3 witness: two update() calls waited for a creation that then succeeded,
\* and the stream went on to issue an in-progress update.
C3_Witness ==
    \E s \in Streams :
        /\ streams[s].messageId # 0
        /\ lastCall.n >= 3
        /\ streams[s].pendingUpdate.set
        /\ Cardinality({i \in Nets : IsCreate(i) /\ net[i].ref = s}) = 1

\* C6: after finalize() has returned from a failed final update the stream is
\* finalized.
C6_FinalizedAfterFailure ==
    \A i \in Nets :
        (IsFinal(i) /\ net[i].status = "failed") => streams[net[i].ref].isFinalized

\* C10: two in-progress updates of one stream are issued at least
\* STREAM_UPDATE_INTERVAL_MS apart.
C10_UpdatesSpaced ==
    \A i, j \in Nets :
        (i < j /\ IsProgress(i) /\ IsProgress(j) /\ net[i].ref = net[j].ref)
        => net[j].at - net[i].at >= STREAM_UPDATE_INTERVAL_MS


\* C4: the chunk sends of a Final payload carry the chunker's chunks, each
\* once, and chunk c + 1 is issued only after the send of chunk c has
\* completed; at most one chunk send is in flight.
C4_ChunksSequential ==
    /\ Cardinality({i \in Nets : IsSend(i) /\ net[i].status = "inflight"}) <= 1
    /\ \A i \in Nets :
          IsSend(i) =>
            /\ net[i].final \in 1..Len(finals)
            /\ net[i].ref \in 1..Len(ChunksOf(net[i].final))
            /\ net[i].text = ChunksOf(net[i].final)[net[i].ref]
            /\ \A j \in Nets :
                  (j # i /\ IsSend(j) /\ net[j].final = net[i].final)
                  => /\ net[j].ref # net[i].ref
                     /\ net[j].op = net[i].op
            /\ net[i].ref > 1 =>
                  \E j \in 1..(i - 1) :
                      /\ IsSend(j) /\ net[j].final = net[i].final
                      /\ net[j].ref = net[i].ref - 1
                      /\ net[j].status = "ok"

\* C4 witness: the third chunk of a payload has been sent after the first two.
C4_Witness ==
    \E i \in Nets : IsSend(i) /\ net[i].ref = 3 /\ net[i].status = "ok"

\* C5: at most one typing indicator exists or is being created at any time,
\* and no indicator is the target of two removal calls.
C5_SingleIndicator ==
    /\ Cardinality({i \in Nets :
          /\ IsAddTyping(i)
          /\ \/ net[i].status = "inflight"
             \/ net[i].status = "ok" /\ ~Removed(i)}) <= 1
    /\ \A i, j \in Nets :
          (i # j /\ IsRemoveTyping(i) /\ IsRemoveTyping(j)) => net[i].ref # net[j].ref

\* C8: when deliver has finished with a Final payload on the chunk path,
\* every chunk of the payload has been sent, also after a failed send.
C8_AllChunksSent ==
    DeliverIdle =>
        \A d \in 1..Len(finals) :
            (\E i \in Nets : IsSend(i) /\ net[i].final = d)
            => \A c \in 1..Len(ChunksOf(d)) :
                  \E i \in Nets : IsSend(i) /\ net[i].final = d /\ net[i].ref = c


\* C7: the pending history of a chat is cleared only after a dispatch that
\* succeeded: not when the dispatch threw and not when a delivery failed and
\* was reported through onError.
C7_ClearedOnlyAfterSuccess ==
    turn.cleared # <<>> => (~turn.threw /\ "deliver" \notin errors)

\* C9: when a dispatched turn that started a typing indicator has reached its
\* terminal state, the typing stop callback has been invoked for it.
C9_StopOnTerminal ==
    (turn.pc = "done" /\ \E i \in Nets : IsAddTyping(i)) => stopInvoked

\* C11: an update() whose content is the content of the update() call made
\* just before it on the same stream issues no network call and schedules no
\* timer, also when no network call has failed.
C11_SameContentOnce ==
    [][\A s \in Streams :
          ( /\ UpdateArrives(s)
            /\ lastCall.fn = "update"
            /\ lastCall.s = s
            /\ lastCall.text = lastCall'.text
            /\ \A i \in Nets : net[i].status # "failed" )
          => ( /\ net' = net
               /\ streams'[s].pendingUpdate = streams[s].pendingUpdate )]_vars

\* C12: after the create call of a stream has failed, no later card call
\* (create or update) is issued for that stream.
C12_NoCallAfterCreateFailure ==
    \A i, j \in Nets :
        ( /\ IsCreate(i) /\ net[i].status = "failed"
          /\ i < j
          /\ net[j].ref = net[i].ref )
        => ~(IsCreate(j) \/ IsProgress(j) \/ IsFinal(j))

\* C13: a Final payload that arrives while the dispatcher holds a stream is
\* handed to finalize() of that stream with the payload text, the step issues
\* no chunk send, and no Final payload is ever served both by a final card
\* update and by a chunk send.
C13_LiveFinalFinalizes ==
    /\ [][(Len(finals') = Len(finals) + 1 /\ currentStream # 0)
            => ( /\ FinalizeArrives(currentStream)
                 /\ lastCall'.text = finals'[Len(finals')]
                 /\ \A i \in 1..Len(net') : i > Len(net) => ~(net'[i].op \in
                        {"sendMessage", "sendMarkdownCard"}) )]_vars
    /\ [](\A i, j \in Nets :
             (IsSend(i) /\ IsFinal(j)) => net[i].final # net[j].final)

\* C13 witness: the Final payload of a turn was delivered through the final
\* update of the turn's live card, and no chunk send was issued.
C13_Witness ==
    /\ \E j \in Nets :
          /\ IsFinal(j) /\ net[j].status = "ok" /\ net[j].final = 1
          /\ streams[net[j].ref].messageId # 0
          /\ net[j].text = finals[1]
    /\ \A i \in Nets : ~IsSend(i)

\* A card call of stream s: its create, an in-progress update or the final
\* update.
IsCardCall(i, s) ==
    (IsCreate(i) \/ IsProgress(i) \/ IsFinal(i)) /\ net[i].ref = s

\* C14: the card calls of a stream, in the order they are issued, carry
\* contents in the order the contents arrived at update()/finalize(): a call
\* issued later never carries a content that arrived earlier.
C14_ContentsInOrder ==
    \A s \in Streams : \A i, j \in Nets :
        (i < j /\ IsCardCall(i, s) /\ IsCardCall(j, s)) => net[i].n < net[j].n

\* An authorized run of handleFeishuMessage reaches its dispatch in this step.
TurnStarts == turn.pc # "dispatching" /\ turn'.pc = "dispatching"

\* The dispatch of the current turn returns in this step.
TurnReturns == turn.pc = "dispatching" /\ turn'.pc = "done" /\ ~turn'.threw

\* C15: when an authorized group turn reaches its dispatch, the replay prefix
\* holds the pending history of the chat and no call of the turn's dispatcher
\* has been issued; every network call of the turn is issued with the prefix
\* already fixed; and a non-empty buffer becomes empty only in the step in
\* which the dispatch of a turn of that chat returns.
C15_PrefixBeforeSendClearAfter ==
    /\ [][TurnStarts =>
            ( /\ turn'.isGroup => turn'.replay = chatHistories[turn'.chat]
              /\ net' = <<>>
              /\ calls' = <<>> )]_vars
    /\ [][Len(net') > Len(net) =>
            ( /\ turn.pc # "idle"
              /\ turn'.replay = turn.replay
              /\ turn'.chat = turn.chat )]_vars
    /\ [][\A c \in Chats :
            (chatHistories[c] # <<>> /\ chatHistories'[c] = <<>>)
            => (TurnReturns /\ turn.isGroup /\ turn.chat = c)]_vars

\* C15 witness: a group turn replayed pending history, its reply was sent,
\* the dispatch returned and the buffer of the chat is empty.
C15_Witness ==
    /\ turn.pc = "done" /\ turn.isGroup /\ ~turn.threw
    /\ turn.replay # <<>>
    /\ \E i \in Nets : IsSend(i) /\ net[i].status = "ok"
    /\ chatHistories[turn.chat] = <<>>

\* C16: the limit used by handleFeishuMessage is never negative, and the
\* buffer of every chat holds the last min(limit, n) of the n entries recorded
\* for the chat since its last clear, in the order they were recorded; with
\* limit 0 it holds nothing.
C16_KeepsMostRecent ==
    /\ historyLimit >= 0
    /\ \A c \in Chats :
          LET h == chatHistories[c]
              r == recorded[c]
          IN  /\ Len(h) <= historyLimit
              /\ Len(h) = IF Len(r) <= historyLimit THEN Len(r) ELSE historyLimit
              /\ \A k \in 1..Len(h) : h[k] = r[Len(r) - Len(h) + k]

\* C16 witness: more entries were recorded for a chat than the limit keeps,
\* and the oldest one has been evicted.
C16_Witness ==
    \E c \in Chats :
        /\ historyLimit = MaxHistoryLimit
        /\ Len(recorded[c]) > historyLimit
        /\ Len(chatHistories[c]) = historyLimit
        /\ chatHistories[c][1] # recorded[c][1]

\* C17: the step that builds the replay prefix leaves the chatHistories map
\* unchanged, and a prefix built from an empty buffer holds no history; the
\* clear after a returned dispatch (limit positive) empties the buffer of the
\* turn's chat and leaves the buffer of every other chat unchanged.
C17_BuildKeepsClearEmpties ==
    [][ /\ TurnStarts =>
             ( /\ chatHistories' = chatHistories
               /\ (turn'.isGroup /\ chatHistories[turn'.chat] = <<>>)
                  => turn'.replay = <<>> )
        /\ (TurnReturns /\ turn.isGroup /\ historyLimit > 0) =>
             ( /\ chatHistories'[turn.chat] = <<>>
               /\ \A c \in Chats \ {turn.chat} :
                     chatHistories'[c] = chatHistories[c] ) ]_vars

\* C17 witness: the buffer of the turn's chat was cleared after the dispatch
\* while another chat still holds its pending entries.
C17_Witness ==
    /\ turn.pc = "done" /\ turn.cleared # <<>>
    /\ chatHistories[turn.chat] = <<>>
    /\ \E c \in Chats : c # turn.chat /\ chatHistories[c] # <<>>

\* C18: with every typing callback awaited before the next one, start() with
\* no reply-to message id creates nothing; a start() issues a creation only
\* when every indicator created before has been handed to a removal call
\* (start(); start() creates one indicator); every removal call targets a
\* created indicator and no indicator is the target of two removal calls
\* (stop(); stop() issues one removal, stop() while Idle none).
C18_AwaitedCallsIdempotent ==
    /\ ~replyToMessageId => \A i \in Nets : ~IsAddTyping(i)
    /\ \A i, j \in Nets :
          (i < j /\ IsAddTyping(i) /\ IsAddTyping(j) /\ net[i].status = "ok")
          => \E k \in Nets : i < k /\ k < j /\ IsRemoveTyping(k) /\ net[k].ref = i
    /\ \A j \in Nets :
          IsRemoveTyping(j) =>
            /\ net[j].ref \in Nets
            /\ IsAddTyping(net[j].ref) /\ net[net[j].ref].status = "ok"
            /\ net[j].ref < j
            /\ \A k \in Nets : (k # j /\ IsRemoveTyping(k)) => net[k].ref # net[j].ref

\* C18 witness: two start() and two stop() calls have run, each awaited, and
\* one indicator was created and one removal call was issued.
C18_Witness ==
    /\ budget.starts <= MaxStarts - 1 /\ budget.stops <= MaxStops - 1
    /\ calls = <<>>
    /\ typingState = 0
    /\ Cardinality({i \in Nets : IsAddTyping(i)}) = 1
    /\ Cardinality({i \in Nets : IsRemoveTyping(i)}) = 1

C20_BlankFinalNoop ==
    [][(\E text \in BlankTexts : DeliverBlank(text))
        => UNCHANGED <<net, calls, streams, currentStream, lastCall, finals,
                       typingState, errors>>]_vars

\* C20 witness: a blank Final payload was handed to deliver while the turn's
\* stream held a live card, and no final update and no send was issued.
C20_Witness ==
    /\ budget.delivers + Len(finals) < MaxDelivers
    /\ currentStream # 0
    /\ streams[currentStream].messageId # 0
    /\ \A i \in Nets : ~(IsFinal(i) \/ IsSend(i))

\* C21: the render path is chosen once for a Final payload and applies to all
\* of its chunks: every chunk goes out as a card when the mode is card, as
\* plain text when the mode is raw, and in auto mode as a card exactly when
\* the whole payload holds a fenced code block (two fences of three backticks)
\* or a table (a row between pipes, line breaks, then a separator row between
\* pipes); no payload has chunks on both paths.
HasFencedBlock(t) ==
    \E i, j \in 1..Len(t) :
        /\ j >= i + 3 /\ j + 2 <= Len(t)
        /\ SubSeq(t, i, i + 2) = <<Backtick, Backtick, Backtick>>
        /\ SubSeq(t, j, j + 2) = <<Backtick, Backtick, Backtick>>

HasTable(t) ==
    \E a, d \in 1..Len(t) : \E b, c \in (a + 1)..(d - 1) :
        /\ b < c
        /\ t[a] = "|" /\ t[b] = "|" /\ t[c] = "|" /\ t[d] = "|"
        /\ LET row == SubSeq(t, a + 1, b - 1)
               breaks == SubSeq(t, b + 1, c - 1)
               separator == SubSeq(t, c + 1, d - 1)
           IN  /\ row # <<>> /\ breaks # <<>> /\ separator # <<>>
               /\ \A k \in 1..Len(row) : row[k] \notin {"\n", "\r"}
               /\ \A k \in 1..Len(breaks) : breaks[k] \in {"\n", "\r"}
               /\ \A k \in 1..Len(separator) : separator[k] \in {"-", ":", "|", " "}

C21_RenderPathPerPayload ==
    \A i \in Nets :
        IsSend(i) =>
          LET payload == finals[net[i].final]
              card == \/ renderMode = "card"
                      \/ renderMode = "auto"
                         /\ (HasFencedBlock(payload) \/ HasTable(payload))
          IN  /\ net[i].op = (IF card THEN "sendMarkdownCard" ELSE "sendMessage")
              /\ \A j \in Nets :
                    (IsSend(j) /\ net[j].final = net[i].final) => net[j].op = net[i].op

\* C21 witness: in auto mode a payload with a fenced code block has had its
\* second chunk sent as a card.
C21_Witness ==
    \E i \in Nets :
        /\ IsSend(i) /\ renderMode = "auto" /\ net[i].ref >= 2
        /\ net[i].op = "sendMarkdownCard" /\ HasFencedBlock(finals[net[i].final])

\* C22: a failure of the allow check or of the route resolution rejects the
\* promise of the message handler, and the step of the failure creates no
\* dispatcher, adds no typing indicator, sends nothing and clears no history.
C22_FailurePropagates ==
    [][failure' # failure =>
          /\ failure'.rejected
          /\ UNCHANGED <<typingState, currentStream, nStreams, streams, calls, net,
                         finals, stopInvoked, chatHistories, turn>>]_vars

\* C23: no final content is lost: once deliver has ended, every non-blank
\* Final payload has had a network call carrying its text attempted (a final
\* update of the stream or a chunk send), also when the stream existed but
\* held no live message.
C23_FinalAttempted ==
    DeliverIdle =>
        \A d \in 1..Len(finals) :
            \E i \in Nets :
                \/ IsFinal(i) /\ net[i].text = finals[d]
                \/ IsSend(i) /\ net[i].final = d

\* C24: the clear of an authorized turn removes only entries of its replay
\* prefix: an entry recorded for the chat while the turn was running, which
\* was never part of a prefix, is still in the buffer after the clear.
C24_UnreplayedSurvivesClear ==
    [][(TurnReturns /\ turn.isGroup) =>
          \A k \in 1..Len(chatHistories[turn.chat]) :
              LET e == chatHistories[turn.chat][k] IN
              (\A r \in 1..Len(turn.replay) : turn.replay[r] # e)
              => \E j \in 1..Len(chatHistories'[turn.chat]) :
                     chatHistories'[turn.chat][j] = e]_vars

\* C25: the final update is the last network call of a stream: while
\* finalize() is the latest call made on the stream, no step issues an
\* in-progress update of it, be it by a suspended update(), by an update()
\* that arrives now or by a timer.
C25_NoProgressAfterFinalize ==
    [][lastCall.fn = "finalize" =>
          \A j \in (Len(net) + 1)..Len(net') :
              ~(/\ net'[j].op = "updateCard" /\ net'[j].streaming
                /\ net'[j].ref = lastCall.s)]_vars

\* C26: finalize() cancels the pending scheduled update: in the step in which
\* finalize() is called on a stream with a pending timer the timer is gone,
\* and no timer update whose content arrived before the finalize() call is
\* issued after the final update.
C26_FinalizeCancelsTimer ==
    [][/\ \A s \in Streams :
             (FinalizeArrives(s) /\ streams[s].pendingUpdate.set)
             => ~streams'[s].pendingUpdate.set
       /\ \A i, j \in 1..Len(net') :
             (/\ net'[i].op = "updateCard" /\ ~net'[i].streaming
              /\ net'[j].op = "updateCard" /\ net'[j].streaming
              /\ net'[j].by = "timer"
              /\ net'[j].ref = net'[i].ref /\ net'[j].n < net'[i].n)
             => j < i]_vars

\* C26 witness: finalize() cancelled a pending timer, its final update has
\* succeeded, and no call was issued for the update() that had set the timer.
C26_Witness ==
    /\ lastCall.fn = "finalize" /\ lastCall.cancelled # 0
    /\ \E i \in Nets : IsFinal(i) /\ net[i].ref = lastCall.s /\ net[i].status = "ok"
    /\ \A j \in Nets : net[j].n # lastCall.cancelled

\* C27: the typing indicator is suppressed once streaming has begun: while
\* the stream of the dispatcher holds a live message id, no indicator of the
\* dispatcher is active (created and neither removed nor being removed).
C27_NoIndicatorWhileStreaming ==
    (currentStream # 0 /\ streams[currentStream].messageId # 0)
    => \A i \in Nets :
           (IsAddTyping(i) /\ net[i].status = "ok")
           => \E j \in Nets : IsRemoveTyping(j) /\ net[j].ref = i

C30_NoIndicatorOutlivesTurn ==
    (/\ turn.pc = "done" /\ ~turn.threw /\ calls = <<>>
     /\ \A i \in Nets : net[i].status = "ok")
    => /\ typingState = 0
       /\ \A i \in Nets : IsAddTyping(i) => Removed(i)

\* C31: every card created in streaming mode is completed: the step that
\* handles the Final event of the turn (the last step of the turn that can
\* reach finalize), taken while the stream holds the id of a created card,
\* issues an update of that card with streaming_mode false, whatever the
\* Final payload is.
C31_LiveCardCompleted ==
    [][(/\ budget'.delivers = budget.delivers - 1
        /\ currentStream # 0
        /\ streams[currentStream].messageId # 0)
       => \E j \in (Len(net) + 1)..Len(net') :
              /\ net'[j].op = "updateCard" /\ ~net'[j].streaming
              /\ net'[j].ref = currentStream]_vars

\* C32: no error of the typing-indicator path aborts the turn.  The step in
\* which an indicator call fails only logs a typing error; a Partial event
\* that was waiting for the removal is handed to update() of the stream all
\* the same; and after a typing error every Partial event still reaches the
\* stream (or waits for a removal) and every Final payload still reaches
\* finalize() or the chunk sends.
C32_TypingErrorsOnlyLogged ==
    [][/\ \A i \in Nets :
             (/\ IsAddTyping(i) \/ IsRemoveTyping(i)
              /\ net[i].status = "inflight" /\ net'[i].status = "failed")
             => LET f == calls[FrameOf(Machine, i)]
                    forwarded == f.fn = "onPartialReply"
                IN  /\ errors' \subseteq
                          errors \cup {"typing start", "typing stop"}
                              \cup (IF forwarded /\ currentStream = 0
                                    THEN {"onPartialReply"} ELSE {})
                    /\ finals' = finals /\ currentStream' = currentStream
                    /\ (forwarded /\ currentStream # 0)
                       => /\ UpdateArrives(currentStream)
                          /\ lastCall'.text = f.text
                    /\ ~forwarded
                       => /\ streams' = streams /\ lastCall' = lastCall
                          /\ Len(calls') = Len(calls) - 1
       /\ (errors \cap {"typing start", "typing stop"} # {})
          => /\ budget'.partials = budget.partials - 1
                => \/ UpdateArrives(currentStream')
                   \/ \E k \in 1..Len(calls') :
                         /\ calls'[k].fn = "onPartialReply"
                         /\ calls'[k].pc = "remove"
             /\ Len(finals') = Len(finals) + 1
                => IF currentStream # 0
                   THEN FinalizeArrives(currentStream)
                   ELSE /\ Len(net') = Len(net) + 1
                        /\ net'[Len(net')].op \in {"sendMessage", "sendMarkdownCard"}]_vars

\* C32 witness: a removal of the indicator has failed, and after it the card
\* of the Partial event was created and the Final payload was sent through
\* the final update.
C32_Witness ==
    \E i, j, k \in Nets :
        /\ IsRemoveTyping(i) /\ net[i].status = "failed"
        /\ "typing stop" \in errors
        /\ i < j /\ IsCreate(j) /\ net[j].status = "ok"
        /\ j < k /\ IsFinal(k) /\ net[k].status = "ok"

\* C33: turns share no mutable state.  No step changes the dispatcher state
\* (stream, typing state, calls) of both turns; a step that changes the
\* history buffer of a chat is a step of a group turn of that chat or the
\* recording of a suppressed message of that chat; and no step of a
\* direct-message turn changes any buffer.
C33_TurnsShareNoState ==
    [][LET firstSteps == <<typingState, currentStream, streams, calls, net, turn>>' #
                         <<typingState, currentStream, streams, calls, net, turn>>
           secondSteps == second' # second
           records == nMsg' # nMsg /\ ~firstSteps /\ ~secondSteps
       IN  /\ ~(firstSteps /\ secondSteps)
           /\ \A c \in Chats :
                 chatHistories'[c] # chatHistories[c]
                 => \/ firstSteps /\ turn'.chat = c /\ turn'.isGroup
                    \/ secondSteps /\ second'.chat = c /\ second'.isGroup
                    \/ records /\ recorded'[c] # recorded[c]]_vars

\* C33 witness: the second turn, of another chat, has streamed into a card of
\* its own and has returned, while the first turn is still dispatching with
\* its indicator, no stream, and the buffer of its chat intact.
C33_Witness ==
    /\ turn.pc = "dispatching" /\ turn.isGroup /\ typingState # 0
    /\ second.pc = "done" /\ second.isGroup /\ second.chat # turn.chat
    /\ \E i \in 1..Len(second.m.net) :
          second.m.net[i].op = "sendCard" /\ second.m.net[i].status = "ok"
    /\ second.m.currentStream = 1 /\ currentStream = 0
    /\ chatHistories[turn.chat] # <<>>

\* The step handles a message that is suppressed (a group message that passes
\* the allowlists and lacks the required mention) or rejected by an allowlist.
SuppressedStep(c) ==
    /\ nMsg' # nMsg
    /\ \E msg \in Messages : msg.chat = c /\ HandleSuppressed(msg)

RejectedStep == nMsg' # nMsg /\ \E msg \in Messages : HandleRejected(msg)

\* The step starts no dispatch, adds no typing indicator and sends nothing.
NotAnswered ==
    /\ turn' = turn /\ second' = second /\ failure' = failure
    /\ UNCHANGED <<typingState, currentStream, nStreams, streams, calls, net,
                   finals, stopInvoked>>

\* C35 as stated: a suppressed message is appended to the history buffer of
\* its chat and is not answered (no dispatch, no typing indicator, no send); a
\* rejected message is neither recorded nor dispatched and leaves every
\* buffer unchanged.
C35_SuppressedRecordedNotAnswered ==
    [][/\ \A c \in Chats :
             SuppressedStep(c) =>
                /\ NotAnswered
                /\ chatHistories'[c] # <<>>
                /\ chatHistories'[c][Len(chatHistories'[c])].messageId = nMsg'
                /\ \A o \in Chats \ {c} : chatHistories'[o] = chatHistories[o]
       /\ RejectedStep => NotAnswered /\ chatHistories' = chatHistories]_vars

\* C35 amended: a suppressed message is not answered; it is appended to the
\* history buffer of its chat when the history limit is positive, and leaves
\* every buffer unchanged when the limit is 0; a rejected message is neither
\* recorded nor dispatched and leaves every buffer unchanged.
C35_SuppressedRecordedIfEnabled ==
    [][/\ \A c \in Chats :
             SuppressedStep(c) =>
                /\ NotAnswered
                /\ IF historyLimit > 0
                   THEN /\ chatHistories'[c] # <<>>
                        /\ chatHistories'[c][Len(chatHistories'[c])].messageId = nMsg'
                        /\ Len(chatHistories'[c]) <= historyLimit
                   ELSE chatHistories'[c] = chatHistories[c]
                /\ \A o \in Chats \ {c} : chatHistories'[o] = chatHistories[o]
       /\ RejectedStep => NotAnswered /\ chatHistories' = chatHistories]_vars

\* C35 witness: a suppressed message was recorded and a rejected message was
\* handled after it; the buffer holds the suppressed message alone, no turn
\* was dispatched and nothing was sent.
C35_Witness ==
    /\ nMsg = 2 /\ turn.pc = "idle" /\ net = <<>> /\ typingState = 0
    /\ \E c \in Chats :
          /\ Len(recorded[c]) = 1 /\ recorded[c][1].messageId = 1
          /\ chatHistories[c] = recorded[c]
          /\ \A o \in Chats \ {c} : recorded[o] = <<>> /\ chatHistories[o] = <<>>

\* C34: a stream has at most one pending scheduled update (no timer is set
\* while one is pending: a pending timer stays the same timer until it is
\* gone), a timer is pending only on a stream whose create call has
\* succeeded, and a pending timer goes away only by firing, not before its
\* time and at most once, or by the finalize() call that cancels it.
C34_OnePendingTimer ==
    [][\A s \in Streams :
          LET timer == streams[s].pendingUpdate
              timer2 == streams'[s].pendingUpdate
              fires == /\ now >= timer.at /\ lastCall' = lastCall
                       /\ Len(net') <= Len(net) + 1
                       /\ \A j \in (Len(net) + 1)..Len(net') :
                             /\ net'[j].op = "updateCard" /\ net'[j].by = "timer"
                             /\ net'[j].ref = s /\ net'[j].n = timer.n
                             /\ net'[j].text = timer.content
              cancelled == FinalizeArrives(s) /\ lastCall'.cancelled = timer.n
          IN  /\ timer2.set =>
                    /\ streams'[s].messageId # 0
                    /\ net'[streams'[s].messageId].op = "sendCard"
                    /\ net'[streams'[s].messageId].status = "ok"
              /\ (timer.set /\ timer2.set) => timer2 = timer
              /\ (timer.set /\ ~timer2.set) => fires \/ cancelled
              /\ \A i, j \in 1..Len(net') :
                    (/\ net'[i].by = "timer" /\ net'[j].by = "timer"
                     /\ net'[i].ref = s /\ net'[j].ref = s
                     /\ net'[i].n = net'[j].n) => i = j]_vars

\* C34 witness: while a timer is pending on a live stream, an update() with
\* a content other than the last one sent has arrived on it, and the timer
\* pending is still the one of the earlier update().
C34_Witness ==
    \E s \in Streams :
        /\ streams[s].pendingUpdate.set /\ streams[s].messageId # 0
        /\ lastCall.fn = "update" /\ lastCall.s = s
        /\ lastCall.n > streams[s].pendingUpdate.n
        /\ lastCall.text # streams[s].lastContent

\* C36: every request of listMessagesFeishu asks for at most 50 items; the
\* messages collected are at most count, in the order the API returned them;
\* a request is sent only while fewer than count messages are collected and
\* the response before it reported more pages and returned a page token;
\* against a backend that serves at least one item on every page that has
\* more, at most count requests are sent (the loop terminates); and a
\* response code other than 0 ends the call with an error.
C36_BoundedPagination ==
    LET l == lister
        sent == l.pc \in {"awaiting", "returned"} \/ (l.pc = "threw" /\ l.calls > 0)
    IN  /\ l.calls > 0 => l.pageSize <= 50 /\ l.pageSize <= l.count
        /\ Len(l.messages) <= l.count
        /\ \A i \in 1..Len(l.messages) : l.messages[i] = l.pageToken + i
        /\ l.pc = "awaiting" =>
              /\ Len(l.messages) < l.count
              /\ l.calls > 1 => l.last.has_more /\ l.last.page_token # 0
        /\ l.pc = "returned" =>
              \/ Len(l.messages) >= l.count
              \/ l.calls > 0 /\ (~l.last.has_more \/ l.last.page_token = 0)
        /\ (sent /\ l.productive) => l.calls <= l.count
        /\ (l.calls > 0 /\ l.last.code # 0) => l.pc = "threw"
        /\ (l.pc = "threw" /\ l.calls > 0) => l.last.code # 0

\* C36 witness: a call with a count above 50 has returned count messages
\* after two requests, the last page holding more items than were taken.
C36_Witness ==
    /\ lister.pc = "returned" /\ lister.count > 50 /\ lister.calls = 2
    /\ lister.pageSize = 50
    /\ Len(lister.messages) = lister.count
    /\ Len(lister.last.items) > lister.count - 50

====
